---- MODULE Spec2Model ----
(***************************************************************************)
(* Model of the AudioSale tracker: the record store (services/storage),    *)
(* the App component's state, its mount/save effects, its derived values   *)
(* (filteredSales, stats) and its event handlers.                          *)
(*                                                                         *)
(* Strings the code inspects character by character (dates, month         *)
(* prefixes, numeric input text) are sequences of one-character strings.   *)
(***************************************************************************)
EXTENDS Integers, Sequences, FiniteSets, TLC

\* ------------------------------------------------------------------ bounds
MaxIds == 3          \* identifiers crypto.randomUUID() can hand out
MaxSales == 2        \* create is not fired on a list already this long
MaxInputs == 3       \* form input events fired in one run

\* --------------------------------------------------------------- constants
NoId == 0                       \* null editingId / undefined formData.id
Undefined == "undefined"        \* an absent optional property (note)
Ids == 1..MaxIds

SPEAKER == "SPEAKER"
AMPLIFIER == "AMPLIFIER"

DASHBOARD == "dashboard"
LIST == "list"
FORM == "form"

All == <<"a", "l", "l">>
DateJan == <<"2", "0", "2", "4", "-", "0", "1", "-", "1", "5">>
DateFeb == <<"2", "0", "2", "4", "-", "0", "2", "-", "0", "1">>
Today == DateFeb

Keys == <<"id", "brand", "type", "model", "costPrice", "shippingCost",
          "sellingPrice", "date", "note">>
KeySet == {Keys[i] : i \in 1..Len(Keys)}

\* ------------------------------------------------------------ JSON / store
NoData == [kind |-> "null"]          \* getItem returns null (or "")
Corrupt == [kind |-> "corrupt"]      \* text JSON.parse rejects
Json(items) == [kind |-> "json", items |-> items]

\* JSON.stringify of one object: its properties in order, undefined ones left out
stringifyItem(r) ==
    SelectSeq([i \in 1..Len(Keys) |-> <<Keys[i], r[Keys[i]]>>],
              LAMBDA kv : ~(kv[1] = "note" /\ kv[2] = Undefined))

JSONstringify(list) == Json([i \in 1..Len(list) |-> stringifyItem(list[i])])

HasKey(obj, k) == \E i \in 1..Len(obj) : obj[i][1] = k
ValueOf(obj, k) == obj[CHOOSE i \in 1..Len(obj) : obj[i][1] = k][2]

\* JSON.parse of one object: a property that is not in the text reads as undefined
parseItem(obj) ==
    [id |-> ValueOf(obj, "id"), brand |-> ValueOf(obj, "brand"),
     type |-> ValueOf(obj, "type"), model |-> ValueOf(obj, "model"),
     costPrice |-> ValueOf(obj, "costPrice"),
     shippingCost |-> ValueOf(obj, "shippingCost"),
     sellingPrice |-> ValueOf(obj, "sellingPrice"),
     date |-> ValueOf(obj, "date"),
     note |-> IF HasKey(obj, "note") THEN ValueOf(obj, "note") ELSE Undefined]

JSONparse(text) ==
    IF text.kind = "json"
    THEN [threw |-> FALSE, val |-> [i \in 1..Len(text.items) |-> parseItem(text.items[i])]]
    ELSE [threw |-> TRUE, val |-> <<>>]

\* localStorage.setItem: the write lands, or throws and leaves the key alone
setItem(st, text, ok) == IF ok THEN text ELSE st

saveSalesReversed(st, list, ok) ==
    setItem(st, JSONstringify([i \in 1..Len(list) |-> list[Len(list) + 1 - i]]), ok)

\* saveSales: the store after the call
saveSales(st, list, ok) == setItem(st, JSONstringify(list), ok)

loadSalesNoCatch(st) ==
    IF st.kind = "null"
    THEN [ret |-> <<>>, logged |-> FALSE, threw |-> FALSE]
    ELSE LET p == JSONparse(st)
         IN  [ret |-> p.val, logged |-> FALSE, threw |-> p.threw]

\* loadSales: the list returned, whether the catch logged, whether it threw
loadSales(st) ==
    IF st.kind = "null"
    THEN [ret |-> <<>>, logged |-> FALSE, threw |-> FALSE]
    ELSE LET p == JSONparse(st)
         IN  IF p.threw
             THEN [ret |-> <<>>, logged |-> TRUE, threw |-> FALSE]
             ELSE [ret |-> p.val, logged |-> FALSE, threw |-> FALSE]

\* ------------------------------------------------------------- sample data
Item(id, cost, ship, sell, date, note) ==
    [id |-> id, brand |-> "Sony", type |-> SPEAKER, model |-> "X1",
     costPrice |-> cost, shippingCost |-> ship, sellingPrice |-> sell,
     date |-> date, note |-> note]

\* the lists an earlier run can have left under the key
StoredLists ==
    { <<>>,
      <<Item(1, 1000, 100, 1500, DateJan, Undefined)>>,
      <<Item(2, 7, 0, 3, DateFeb, "mint"), Item(1, 1000, 100, 1500, DateJan, Undefined)>>,
      <<Item(1, 7, 0, 3, DateFeb, Undefined), Item(1, 1000, 100, 1500, DateJan, "mint")>> }

\* what the key can hold when the app starts, with the list it was written from
Startups ==
    {[blob |-> NoData, list |-> <<>>], [blob |-> Corrupt, list |-> <<>>]}
        \cup {[blob |-> JSONstringify(l), list |-> l] : l \in StoredLists}

IdsIn(list) == {list[i].id : i \in 1..Len(list)}
UniqueIds(list) == \A i, j \in 1..Len(list) : list[i].id = list[j].id => i = j

\* ---------------------------------------------------------- pure functions
Min(a, b) == IF a < b THEN a ELSE b

startsWithYear(s, p) == Len(p) <= Len(s) /\ SubSeq(s, 1, Min(4, Len(p))) = SubSeq(p, 1, Min(4, Len(p)))

\* String.prototype.startsWith
startsWith(s, p) == Len(p) <= Len(s) /\ SubSeq(s, 1, Len(p)) = p

\* String.prototype.substring(0, n)
substring0(s, n) == SubSeq(s, 1, Min(n, Len(s)))

Digits == <<"0", "1", "2", "3", "4", "5", "6", "7", "8", "9">>
DigitVal(c) == (CHOOSE i \in 1..Len(Digits) : Digits[i] = c) - 1

RECURSIVE NatOf(_)
NatOf(s) == IF s = <<>> THEN 0 ELSE 10 * NatOf(SubSeq(s, 1, Len(s) - 1)) + DigitVal(s[Len(s)])

\* Number(value) on the text of a number input: "" is 0, a leading "-" negates
Number(s) == IF s = <<>> THEN 0 ELSE IF Head(s) = "-" THEN 0 - NatOf(Tail(s)) ELSE NatOf(s)

RECURSIVE filterDate(_, _)
filterDate(list, m) ==
    IF list = <<>> THEN <<>>
    ELSE IF startsWith(Head(list).date, m)
         THEN <<Head(list)>> \o filterDate(Tail(list), m)
         ELSE filterDate(Tail(list), m)

\* the filteredSales memo
filterByMonth(list, m) == IF m = All THEN list ELSE filterDate(list, m)

RECURSIVE reduceStatsNoShipping(_, _)
reduceStatsNoShipping(list, acc) ==
    IF list = <<>> THEN acc
    ELSE LET curr == Head(list)
             cost == curr.costPrice
             revenue == curr.sellingPrice
             profit == revenue - (curr.costPrice + curr.shippingCost)
         IN  reduceStatsNoShipping(Tail(list),
                 [totalCost |-> acc.totalCost + cost,
                  totalRevenue |-> acc.totalRevenue + revenue,
                  totalProfit |-> acc.totalProfit + profit,
                  count |-> acc.count + 1])

RECURSIVE reduceStats(_, _)
reduceStats(list, acc) ==
    IF list = <<>> THEN acc
    ELSE LET curr == Head(list)
             cost == curr.costPrice + curr.shippingCost
             revenue == curr.sellingPrice
             profit == revenue - cost
         IN  reduceStats(Tail(list),
                 [totalCost |-> acc.totalCost + cost,
                  totalRevenue |-> acc.totalRevenue + revenue,
                  totalProfit |-> acc.totalProfit + profit,
                  count |-> acc.count + 1])

\* the stats memo
summarize(list) ==
    reduceStats(list, [totalCost |-> 0, totalRevenue |-> 0, totalProfit |-> 0, count |-> 0])

\* the months offered by the dashboard select (as a set: the order only affects display)
availableMonths(list) == {substring0(list[i].date, 7) : i \in 1..Len(list)}

mapReplaceAll(list, id, fd) == [i \in 1..Len(list) |-> [fd EXCEPT !.id = id]]

\* prev.map(item => item.id === editingId ? {...formData, id: editingId} : item)
mapReplace(list, id, fd) ==
    [i \in 1..Len(list) |-> IF list[i].id = id THEN [fd EXCEPT !.id = id] ELSE list[i]]

filterNotIdFirst(list, id) ==
    IF \E i \in 1..Len(list) : list[i].id = id
    THEN LET k == CHOOSE i \in 1..Len(list) :
                      list[i].id = id /\ \A j \in 1..(i - 1) : list[j].id # id
         IN  SubSeq(list, 1, k - 1) \o SubSeq(list, k + 1, Len(list))
    ELSE list

RECURSIVE filterNotId(_, _)
\* prev.filter(item => item.id !== id)
filterNotId(list, id) ==
    IF list = <<>> THEN <<>>
    ELSE IF Head(list).id # id
         THEN <<Head(list)>> \o filterNotId(Tail(list), id)
         ELSE filterNotId(Tail(list), id)

append(item, list) == list \o <<item>>

\* [newItem, ...prev]
prepend(item, list) == <<item>> \o list

\* the form's initial and reset value
EmptyForm ==
    [id |-> NoId, brand |-> "", type |-> SPEAKER, model |-> "",
     costPrice |-> 0, shippingCost |-> 0, sellingPrice |-> 0,
     date |-> Today, note |-> Undefined]

\* String.prototype.includes
includes(s, sub) == \E i \in 1..(Len(s) - Len(sub) + 1) : SubSeq(s, i, i + Len(sub) - 1) = sub

\* the name attribute of each input of the form, spelled out
NameText ==
    [brand |-> <<"b", "r", "a", "n", "d">>,
     model |-> <<"m", "o", "d", "e", "l">>,
     type |-> <<"t", "y", "p", "e">>,
     date |-> <<"d", "a", "t", "e">>,
     costPrice |-> <<"c", "o", "s", "t", "P", "r", "i", "c", "e">>,
     shippingCost |-> <<"s", "h", "i", "p", "p", "i", "n", "g", "C", "o", "s", "t">>,
     sellingPrice |-> <<"s", "e", "l", "l", "i", "n", "g", "P", "r", "i", "c", "e">>]

\* name.includes('Price') || name.includes('Cost')
isAmount(name) ==
    \/ includes(NameText[name], <<"P", "r", "i", "c", "e">>)
    \/ includes(NameText[name], <<"C", "o", "s", "t">>)

\* what the form's inputs send to handleInputChange: e.target.name and e.target.value
InputValues ==
    [brand |-> {"Sony"}, model |-> {"X1"}, type |-> {AMPLIFIER}, date |-> {DateJan},
     costPrice |-> {<<"-", "5">>},
     shippingCost |-> {<<"7">>},
     sellingPrice |-> {<<"7">>}]
\* (the type select, the date input and the selling price input go through the same
\* branches as brand and costPrice, and are left alone)
InputNames == DOMAIN InputValues \ {"type", "date", "sellingPrice"}

\* -------------------------------------------------------------------- state
VARIABLES
    store,          \* localStorage[STORAGE_KEY]
    sales,          \* useState sales
    pending,        \* the value setSales queued in the load effect, until the re-render
    pc,             \* "load", "save0", "render", "save", "idle", "crashed"
    currentView,    \* useState currentView
    editingId,      \* useState editingId
    selectedMonth,  \* useState selectedMonth
    formData,       \* useState formData
    issued,         \* identifiers already in use: crypto.randomUUID() returns none of them
    writable,       \* the storage takes writes in this run; if not (full, disabled) every
                    \* setItem throws and saveSales only logs
    stored0,        \* history: the list in the store when the app started (<<>> if none)
    lastOp,         \* history: the last handler that ran, and its branch
    lastId,         \* history: the id that handler created, replaced or removed
    base,           \* history: the list before a create, kept while only its undo follows
    inputs          \* number of input events fired so far

vars == <<store, sales, pending, pc, currentView, editingId, selectedMonth, formData,
          issued, writable, stored0, lastOp, lastId, base, inputs>>

ui == <<currentView, editingId, selectedMonth, formData>>
NoBase == [phase |-> "none", list |-> <<>>]

Init ==
    /\ \E s \in Startups : store = s.blob /\ stored0 = s.list
    /\ sales = <<>>
    /\ pending = <<>>
    /\ pc = "load"
    /\ currentView = DASHBOARD
    /\ editingId = NoId
    /\ selectedMonth = All
    /\ formData = EmptyForm
    /\ issued = IdsIn(stored0)
    /\ writable \in BOOLEAN
    /\ lastOp = "mount"
    /\ lastId = NoId
    /\ base = NoBase
    /\ inputs = 0

\* ------------------------------------------------------------------ effects
\* useEffect(() => { const loaded = loadSales(); setSales(loaded); }, [])
LoadEffect ==
    /\ pc = "load"
    /\ LET r == loadSales(store)
       IN  /\ pending' = r.ret
           /\ pc' = IF r.threw THEN "crashed" ELSE "save0"
    /\ UNCHANGED <<store, sales, ui, issued, writable, stored0, lastOp, lastId, base, inputs>>

\* useEffect(() => { saveSales(sales); }, [sales]): after the first render and
\* after every render in which sales is a new array
SaveEffect ==
    /\ pc \in {"save0", "save"}
    /\ store' = saveSales(store, sales, writable)
    /\ pc' = IF pc = "save0" THEN "render" ELSE "idle"
    /\ UNCHANGED <<sales, pending, ui, issued, writable, stored0, lastOp, lastId, base, inputs>>

\* the re-render the load effect's setSales causes
Rerender ==
    /\ pc = "render"
    /\ sales' = pending
    /\ pc' = "save"
    /\ UNCHANGED <<store, pending, ui, issued, writable, stored0, lastOp,
                   lastId, base, inputs>>

\* ----------------------------------------------------------------- handlers
\* resetForm
resetForm ==
    /\ formData' = EmptyForm
    /\ editingId' = NoId

handleInputChange(name, value) ==
    /\ formData' = [formData EXCEPT ![name] = IF isAmount(name) THEN Number(value) ELSE value]
    /\ lastOp' = "ui"
    /\ lastId' = NoId
    /\ base' = NoBase
    /\ UNCHANGED <<store, sales, pending, pc, currentView, editingId, selectedMonth, issued,
                   writable, stored0>>

randomUUIDAny == Ids

\* crypto.randomUUID(): an identifier nothing else carries
randomUUID == Ids \ issued

invalidBrandOnly(fd) == fd.brand = ""

\* !formData.brand || !formData.model
invalid(fd) == fd.brand = "" \/ fd.model = ""

handleSubmit ==
    IF invalid(formData)
    THEN /\ lastOp' = "reject"
         /\ lastId' = NoId
         /\ base' = NoBase
         /\ UNCHANGED <<store, sales, pending, pc, ui, issued, writable, stored0, inputs>>
    ELSE /\ IF editingId # NoId
            THEN /\ sales' = mapReplace(sales, editingId, formData)
                 /\ lastOp' = "update"
                 /\ lastId' = editingId
                 /\ base' = NoBase
                 /\ UNCHANGED issued
            ELSE /\ Len(sales) < MaxSales
                 /\ \E id \in randomUUID :
                       /\ sales' = prepend([formData EXCEPT !.id = id], sales)
                       /\ issued' = issued \cup {id}
                       /\ lastId' = id
                 /\ lastOp' = "create"
                 /\ base' = [phase |-> "created", list |-> sales]
         /\ resetForm
         /\ currentView' = LIST
         /\ pc' = "save"
         /\ UNCHANGED <<store, pending, selectedMonth, writable, stored0, inputs>>

handleDelete(id, confirmed) ==
    IF confirmed
    THEN /\ sales' = filterNotId(sales, id)
         /\ pc' = "save"
         /\ lastOp' = "delete"
         /\ lastId' = id
         /\ base' = IF base.phase = "created" /\ lastId = id
                    THEN [phase |-> "deleted", list |-> base.list]
                    ELSE NoBase
         /\ UNCHANGED <<store, pending, ui, issued, writable, stored0, inputs>>
    ELSE /\ lastOp' = "decline"
         /\ lastId' = id
         /\ base' = NoBase
         /\ UNCHANGED <<store, sales, pending, pc, ui, issued, writable, stored0, inputs>>

handleEdit(item) ==
    /\ formData' = item
    /\ editingId' = item.id
    /\ currentView' = FORM
    /\ lastOp' = "ui"
    /\ lastId' = NoId
    /\ base' = NoBase
    /\ UNCHANGED <<store, sales, pending, pc, selectedMonth, issued, writable, stored0, inputs>>

\* state setters called straight from the markup
setView(v) ==
    /\ currentView' = v
    /\ lastOp' = "ui"
    /\ lastId' = NoId
    /\ base' = NoBase
    /\ UNCHANGED <<store, sales, pending, pc, selectedMonth, issued, writable, stored0, inputs>>

\* ------------------------------------------------------- events of the page
filteredSales == filterByMonth(sales, selectedMonth)
stats == summarize(filteredSales)

InputChange ==
    /\ pc = "idle" /\ currentView = FORM /\ inputs < MaxInputs
    /\ inputs' = inputs + 1
    /\ \E name \in InputNames : \E value \in InputValues[name] : handleInputChange(name, value)

Submit == pc = "idle" /\ currentView = FORM /\ handleSubmit

Cancel == pc = "idle" /\ currentView = FORM /\ resetForm /\ setView(LIST)

ClickAddNoReset == pc = "idle" /\ currentView # FORM /\ setView(FORM) /\ UNCHANGED <<editingId, formData>>

ClickAdd == pc = "idle" /\ currentView # FORM /\ resetForm /\ setView(FORM)

ClickEdit ==
    /\ pc = "idle" /\ currentView = LIST
    /\ \E i \in 1..Len(filteredSales) : handleEdit(filteredSales[i])

ClickDelete ==
    /\ pc = "idle" /\ currentView = LIST
    /\ \E i \in 1..Len(filteredSales) : \E c \in BOOLEAN : handleDelete(filteredSales[i].id, c)

SelectMonth ==
    /\ pc = "idle" /\ currentView = DASHBOARD
    /\ \E m \in {All} \cup availableMonths(sales) : selectedMonth' = m
    /\ lastOp' = "ui"
    /\ lastId' = NoId
    /\ base' = NoBase
    /\ UNCHANGED <<store, sales, pending, pc, currentView, editingId, formData, issued,
                   writable, stored0, inputs>>

NavDashboard == pc = "idle" /\ setView(DASHBOARD) /\ UNCHANGED <<editingId, formData>>

NavList == pc = "idle" /\ setView(LIST) /\ UNCHANGED <<editingId, formData>>

Next ==
    \/ LoadEffect
    \/ SaveEffect
    \/ Rerender
    \/ InputChange
    \/ Submit
    \/ Cancel
    \/ ClickAdd
    \/ ClickEdit
    \/ ClickDelete
    \/ SelectMonth
    \/ NavDashboard
    \/ NavList

Spec == Init /\ [][Next]_vars

\* handleDelete called with any id, whatever the page shows, and confirmed
CallDelete == pc = "idle" /\ \E id \in Ids : handleDelete(id, TRUE)

NextCtl == Next \/ CallDelete

SpecCtl == Init /\ [][NextCtl]_vars

\* ------------------------------------------------------------------- claims
SubmitOps == {"reject", "create", "update"}

\* the list the store holds, read back
Persisted == JSONparse(store).val

\* C1: whenever a create, update or delete and the save effect it triggers have run
\* and the write landed, the store holds the in-memory list, same records, same order.
C1_PersistedEqualsMemory ==
    (pc = "idle" /\ writable) => (store.kind = "json" /\ Persisted = sales)

C1_Witness ==
    /\ pc = "idle" /\ writable /\ lastOp = "update"
    /\ Len(sales) = 2 /\ sales[1] # sales[2]

\* C2: once the mount effects and their re-render are done, the in-memory list is the
\* list that was stored before startup (empty if nothing or garbage was stored), and
\* the load never lets an error escape.
C2_StartupLoad ==
    /\ pc # "crashed"
    /\ (lastOp = "mount" /\ pc \in {"save", "idle"}) => sales = stored0

C2_Witness == lastOp = "mount" /\ pc = "idle" /\ Len(sales) = 2 /\ sales[1].note # Undefined

C2_WitnessCorrupt == lastOp = "mount" /\ pc = "save0" /\ store = Corrupt /\ pending = <<>>

\* C3: a submit with no editing id and an empty brand or model changes nothing: not the
\* list, not the store, not the form data, the editing id or the view, and no save runs.
C3_RejectedCreateIsNoOp ==
    [][(pc = "idle" /\ lastOp' \in SubmitOps /\ editingId = NoId
            /\ (formData.brand = "" \/ formData.model = ""))
        => (UNCHANGED <<sales, store, formData, editingId, currentView, issued>> /\ pc' = "idle")]_vars

C3_Witness ==
    /\ lastOp = "reject" /\ editingId = NoId /\ currentView = FORM
    /\ formData.brand = "Sony" /\ formData.model = "" /\ Len(sales) > 0

\* C4: a create puts one new record in front of the previous list, which is otherwise
\* unchanged, and the new id is the id of no record already there; so a list that
\* started with unique ids keeps unique ids.
C4_CreatePrependsFreshId ==
    /\ [](UniqueIds(stored0) => UniqueIds(sales))
    /\ [][(pc = "idle" /\ lastOp' = "create")
            => /\ Len(sales') = Len(sales) + 1
               /\ \A i \in 1..Len(sales) : sales'[i + 1] = sales[i]
               /\ sales'[1].id = lastId'
               /\ lastId' \notin IdsIn(sales) \cup {NoId}
               /\ sales'[1] = [formData EXCEPT !.id = lastId']]_vars

C4_Witness ==
    /\ lastOp = "create" /\ Len(sales) = 2 /\ sales[1].id = lastId
    /\ base.phase = "created" /\ Len(base.list) = 1 /\ issued = Ids

\* C5: an update replaces the records whose id is the editing id by the form's values
\* under that same id, in place, and leaves every other record, the length and the
\* order alone; with no such record the list is unchanged.
C5_UpdateInPlace ==
    [][(pc = "idle" /\ lastOp' = "update")
        => /\ Len(sales') = Len(sales)
           /\ \A i \in 1..Len(sales) :
                 /\ sales'[i].id = sales[i].id
                 /\ sales[i].id = editingId =>
                       \A k \in KeySet \ {"id"} : sales'[i][k] = formData[k]
                 /\ sales[i].id # editingId => sales'[i] = sales[i]
           /\ (editingId \notin IdsIn(sales) => sales' = sales)]_vars

C5_Witness ==
    /\ lastOp = "update" /\ Len(sales) = 2
    /\ sales[2].id = lastId /\ sales[1].id # lastId
    /\ sales[2].costPrice = 0 - 5 /\ sales[2].note = Undefined

C5_WitnessAbsent == lastOp = "update" /\ lastId \notin IdsIn(sales) /\ Len(sales) > 0

\* C6: a create followed by the delete of the id it assigned gives back the list there
\* was before the create, and once saved the store holds that list again.
C6_CreateThenDeleteRestores ==
    (base.phase = "deleted" /\ UniqueIds(base.list))
        => /\ sales = base.list
           /\ (pc = "idle" /\ writable) => (store.kind = "json" /\ Persisted = base.list)

C6_Witness ==
    /\ base.phase = "deleted" /\ UniqueIds(base.list) /\ Len(base.list) = 1
    /\ pc = "idle" /\ writable /\ lastOp = "delete"

\* the i-th index, in increasing order, of the set of indices S
NthIndex(S, n) == CHOOSE i \in S : Cardinality({j \in S : j < i}) = n - 1

\* list q is list l restricted to the indices in S, order kept
IsRestriction(q, l, S) ==
    /\ Len(q) = Cardinality(S)
    /\ \A n \in 1..Len(q) : q[n] = l[NthIndex(S, n)]

\* C7: a confirmed delete removes exactly the records with that id and keeps the rest in
\* their order; it changes nothing when no record has the id; a declined delete changes
\* neither the list nor the store.
C7_DeleteRemovesExactly ==
    [][/\ (pc = "idle" /\ lastOp' = "delete")
            => /\ IsRestriction(sales', sales, {i \in 1..Len(sales) : sales[i].id # lastId'})
               /\ (lastId' \notin IdsIn(sales) => sales' = sales)
       /\ (pc = "idle" /\ lastOp' = "decline")
            => (UNCHANGED <<sales, store>> /\ pc' = "idle")]_vars

C7_Witness ==
    /\ lastOp = "delete" /\ Len(sales) = 1 /\ sales[1].id # lastId
    /\ lastId \in IdsIn(stored0) /\ base.phase = "none"

C7_WitnessAbsent == lastOp = "delete" /\ lastId \notin issued /\ Len(sales) = 2

RECURSIVE SumOver(_, _)
\* the sum of f[i] over the indices in S
SumOver(f, S) ==
    IF S = {} THEN 0
    ELSE LET i == CHOOSE j \in S : TRUE IN f[i] + SumOver(f, S \ {i})

\* C8: the stats of the month-filtered list are the sum of cost plus shipping, the sum
\* of the selling prices, their difference and the number of records; all 0 when empty.
C8_SummarizeTotals ==
    LET R == filteredSales
        I == 1..Len(R)
        cost == SumOver([i \in I |-> R[i].costPrice + R[i].shippingCost], I)
        revenue == SumOver([i \in I |-> R[i].sellingPrice], I)
    IN  /\ stats.totalCost = cost
        /\ stats.totalRevenue = revenue
        /\ stats.totalProfit = stats.totalRevenue - stats.totalCost
        /\ stats.count = Len(R)
        /\ R = <<>> => stats = [totalCost |-> 0, totalRevenue |-> 0, totalProfit |-> 0, count |-> 0]

C8_Witness ==
    /\ Len(filteredSales) = 2 /\ selectedMonth # All
    /\ stats.totalCost = 2 /\ stats.totalRevenue = 3 /\ stats.totalProfit = 1

C8_WitnessEmpty == selectedMonth # All /\ sales # <<>> /\ filteredSales = <<>> /\ stats.count = 0

\* p is a prefix of s
IsPrefix(p, s) == Len(p) <= Len(s) /\ \A i \in 1..Len(p) : s[i] = p[i]

\* C9: the filtered list is, in the original order, exactly the records whose date starts
\* with the selected month; with "all" it is the whole list; choosing a month never
\* changes the list itself.
C9_FilterByMonth ==
    /\ [](/\ selectedMonth # All =>
                IsRestriction(filteredSales, sales,
                              {i \in 1..Len(sales) : IsPrefix(selectedMonth, sales[i].date)})
          /\ selectedMonth = All => filteredSales = sales)
    /\ [][selectedMonth' # selectedMonth => UNCHANGED <<sales, store>>]_vars

C9_Witness ==
    /\ selectedMonth # All /\ Len(sales) = 2 /\ Len(filteredSales) = 1
    /\ filteredSales[1] = sales[2]

\* C10: every record in the in-memory list has non-negative costPrice, shippingCost and
\* sellingPrice, whatever the form fields were set to.
C10_AmountsNonNegative ==
    \A i \in 1..Len(sales) :
        sales[i].costPrice >= 0 /\ sales[i].shippingCost >= 0 /\ sales[i].sellingPrice >= 0

\* C11: startup never overwrites the stored records with a different list: when the
\* store held a readable (here non-empty) list at mount, it holds that list at every
\* step of the mount and after it, as long as no handler has run.
C11_StartupKeepsStore ==
    (lastOp = "mount" /\ stored0 # <<>>) => (store.kind = "json" /\ Persisted = stored0)

\* the state that breaks C11: the first render's save effect has written the empty list
\* over the stored records, and the loaded list is not yet committed
C11_EmptyListWritten ==
    /\ lastOp = "mount" /\ pc = "render" /\ stored0 # <<>>
    /\ store = JSONstringify(<<>>) /\ pending = stored0 /\ sales = <<>>

\* C12: whenever the form is shown with an editing id, a record of the list carries that
\* id, whatever was edited, deleted, added, cancelled or navigated before; so a
\* submitted update finds its record and the list then holds the form's values.
C12_EditingIdIsInList ==
    /\ []((currentView = FORM /\ editingId # NoId) => editingId \in IdsIn(sales))
    /\ [][(pc = "idle" /\ lastOp' = "update")
            => /\ editingId \in IdsIn(sales)
               /\ \E i \in 1..Len(sales') : sales'[i] = [formData EXCEPT !.id = editingId]]_vars

C12_Witness ==
    /\ currentView = FORM /\ editingId # NoId /\ pc = "idle"
    /\ Len(stored0) = 2 /\ Len(sales) = 1 /\ sales[1].id = editingId
    /\ formData.costPrice = 0 - 5

\* an editing id outlives its record while another view is shown
C12_StaleIdOutsideForm ==
    currentView # FORM /\ editingId # NoId /\ editingId \notin IdsIn(sales)

====
